---- MODULE Spec2Model ----
(***************************************************************************)
(* A model of the levis genetic-algorithm kernel: the generational loop of *)
(* base.GeneticAlgorithm, the selection strategies and the elitism overlay *)
(* of selection.py, the score tracking of behavior.py and the crossover    *)
(* traits of crossover.py / encoding.py, composed with the problem         *)
(* definition of tests/harness.py (DummyBinaryGA).                         *)
(***************************************************************************)
EXTENDS Integers, Sequences, FiniteSets, TLC

\* ------------------------------------------------------------------ bounds
\* Width of a chromosome in bits (DummyBinaryGA uses 8).
ChromosomeBits == 1
\* Largest configured population_size.
MaxPopulationSize == 2
\* Largest configured max_iterations.
MaxIterations == 2
\* random.random() is drawn as ticket / ProbUnits, ticket in 0..ProbUnits-1;
\* crossover_prob and mutation_prob are counted in the same unit.
ProbUnits == 5
\* elitism_pct is drawn as pct / PctUnits, pct in 0..PctUnits.
PctUnits == 2
\* Elite Set runs: chromosomes evaluated are 0..MaxEliteInput, at most
\* MaxEvaluations of them.
MaxEliteInput == 4
MaxEvaluations == 4
\* Elite Set runs: largest population_size (num_elites is derived from it).
MaxElitePopulation == 3
\* Selection runs: populations of up to MaxSelectPopulation chromosomes out of
\* 0..MaxSelectChromosome.
MaxSelectPopulation == 3
MaxSelectChromosome == 3
\* Tournament runs: tournament_size is 0..MaxTournamentSize.
MaxTournamentSize == 3
\* is_finished runs: up to MaxHistory best scores out of 0..MaxBestScore,
\* lookback 0..MaxLookback.
MaxHistory == 3
MaxBestScore == 3
MaxLookback == 2
\* Crossover of lists: parents of up to MaxListLength alleles out of
\* 1..MaxAllele.
MaxListLength == 3
MaxAllele == 2
\* Crossover of binary chromosomes: parents of up to MaxWidth bits.
MaxWidth == 3
\* Crossover of permutations: parents are permutations of 1..n, n up to
\* MaxPermutationLength.
MaxPermutationLength == 6

MaxPointsLength == 6

MaxScoredEvaluations == 3

MaxScoredChromosome == 1

MaxScoredScore == 2

MaxPoints == 2

VARIABLES
    cls,              \* the class composition of the GA object
    population_size,  \* self.population_size
    max_iterations,   \* self.max_iterations
    crossover_prob,   \* self.crossover_prob, in 1/ProbUnits
    mutation_prob,    \* self.mutation_prob, in 1/ProbUnits
    num_elites,       \* self.num_elites (ElitistGA)
    tournament_size,  \* self.tournament_size (TournamentGA)
    threshold,        \* self.threshold (FinishWhenSlowGA), <<numerator, denominator>>
    lookback,         \* self.lookback (FinishWhenSlowGA)
    best_scores,      \* self.best_scores (FittestInGenerationGA)
    iteration,        \* self.iteration
    population,       \* self.population
    next_generation,  \* self.next_generation
    elites,           \* self.elites (ElitistGA): <<score, chromosome>> pairs
    scored,           \* self.scored (ProportionateGA)
    best_score,       \* self.best_score (FittestTriggerGA)
    none_attrs,       \* the attributes whose value is None
    pc,               \* where solve() is
    result,           \* what solve() / select() returned
    error,            \* the exception that left solve() / select(), "" if none
    interrupted,      \* a KeyboardInterrupt was caught by solve()
    injected,         \* history: the Elite Set pre_generate injected
    evaluated,        \* history: the chromosomes fitness() was called on
    parents,          \* a crossover function is called: <<parent1, parent2>>
    arguments,        \* its other arguments; <<>> for None, <<v>> for a value v
    children,         \* what it returned
    drawn,            \* history: the numbers it drew from random
    locals            \* the local variables of a call that runs step by step

vars == <<cls, population_size, max_iterations, crossover_prob, mutation_prob,
          num_elites, tournament_size, threshold, lookback, best_scores, iteration, population, next_generation, elites, scored,
          best_score, none_attrs, pc, result, error, interrupted, injected,
          evaluated, parents, arguments, children, drawn, locals>>

\* no crossover function is being called
NoCall ==
    parents = <<>> /\ arguments = <<>> /\ children = <<>> /\ drawn = <<>> /\ locals = <<>>

\* ------------------------------------------------------------ plain helpers
Pow2(n) == 2 ^ n

\* Python's a & b and a | b on non-negative integers.
RECURSIVE BitAnd(_, _)
BitAnd(a, b) ==
    IF a = 0 \/ b = 0 THEN 0
    ELSE (a % 2) * (b % 2) + 2 * BitAnd(a \div 2, b \div 2)

RECURSIVE BitOr(_, _)
BitOr(a, b) ==
    IF a = 0 THEN b
    ELSE IF b = 0 THEN a
    ELSE (IF a % 2 = 1 \/ b % 2 = 1 THEN 1 ELSE 0) + 2 * BitOr(a \div 2, b \div 2)

\* Python's a ^ b on non-negative integers.
RECURSIVE BitXor(_, _)
BitXor(a, b) ==
    IF a = 0 THEN b
    ELSE IF b = 0 THEN a
    ELSE (IF a % 2 /= b % 2 THEN 1 ELSE 0) + 2 * BitXor(a \div 2, b \div 2)

\* ~bit & (2^width - 1) for a single-bit mask
BitNotMasked(bit, width) == (Pow2(width) - 1) - bit

\* ---------------------------------------------------------------- values
\* What a population slot can hold: a chromosome (an int), a Python list of
\* ints, or None.
Chrom(c) == [kind |-> "int", val |-> <<c>>]
ListOf(s) == [kind |-> "list", val |-> s]
None == [kind |-> "None", val |-> <<>>]

IsChromosome(e) == e.kind = "int"

Chromosomes == 0 .. (Pow2(ChromosomeBits) - 1)

\* DummyBinaryGA.create(): random.randint(0, 2^bits - 1)
create == {Chrom(c) : c \in Chromosomes}

\* DummyBinaryGA.score(): chromosome * 2 (defined on ints)
score(e) == e.val[1] * 2


\* ------------------------------------------------------ class compositions
\* The classes a GA object is built from, by name of the composed class:
\*   DummyBinaryGA            harness.DummyBinaryGA (the base engine)
\*   ElitistGAUT              selection.ElitistGA + DummyBinaryGA
\*   FittestTriggerGAUT       behavior.FittestTriggerGA + DummyBinaryGA
\*   ProportionateGAUT        selection.ProportionateGA + DummyBinaryGA
\*   ScalingProportionateGAUT selection.ScalingProportionateGA + DummyBinaryGA
\*   TournamentGAUT           selection.TournamentGA + DummyBinaryGA
\*   FinishWhenSlowGAUT       behavior.FinishWhenSlowGA + DummyBinaryGA
\*   ConfigurableCrossoverGA  crossover.ConfigurableCrossoverGA in front of
\*                            DummyBinaryGA, crossover_operator = "uniform_bin"
\*   BinaryGA                 encoding.BinaryGA in front of DummyBinaryGA, with
\*                            num_bits() = chromosome_length
IsElitist(c) == c = "ElitistGAUT"
IsTrigger(c) == c = "FittestTriggerGAUT"
IsScaling(c) == c = "ScalingProportionateGAUT"
IsTournament(c) == c = "TournamentGAUT"
IsFinishWhenSlow(c) == c = "FinishWhenSlowGAUT"
IsProportionate(c) == c = "ProportionateGAUT" \/ IsScaling(c)

\* The instance attributes the constructors of the composition assign.
InstanceAttributes(c) ==
    {"id", "iteration", "config", "population", "next_generation",
     "population_size", "mutation_prob", "crossover_prob", "max_iterations",
     "chromosome_length"}
    \cup (IF IsElitist(c) THEN {"elitism_pct", "num_elites", "elites"} ELSE {})
    \cup (IF IsTrigger(c) THEN {"best_score"} ELSE {})
    \cup (IF IsProportionate(c) THEN {"scored"} ELSE {})
    \cup (IF IsTournament(c) THEN {"tournament_size"} ELSE {})
    \cup (IF IsFinishWhenSlow(c)
          THEN {"best_score", "best_scores", "threshold", "lookback"} ELSE {})
    \cup (IF c = "ConfigurableCrossoverGA" THEN {"xop", "is_binary"} ELSE {})
    \cup (IF c = "BinaryGA" THEN {"num_cx_children", "crossover_operator"} ELSE {})

\* ElitistGA.__init__: int(math.ceil(pct * population_size)), pct in 1/PctUnits
NumElites(pct, size) == (pct * size + PctUnits - 1) \div PctUnits

\* GeneticAlgorithm.__init__: a max_iterations <= 0 becomes 1
MaxIterationsOf(configured) == IF configured <= 0 THEN 1 ELSE configured

\* ---------------------------------------------------------------- fitness
Min(S) == CHOOSE x \in S : \A y \in S : x <= y
Max(S) == CHOOSE x \in S : \A y \in S : x >= y

\* ElitistGA.fitness: the loop that finds pos, the first index whose score the
\* new score exceeds; 0 stands for None.
ElitePosLast(els, s) ==
    LET S == {i \in 1 .. Len(els) : s > els[i][1]}
    IN  IF S = {} THEN 0 ELSE Max(S)

\* the loop stops at the first index whose score the new score equals or exceeds
ElitePosBeforeTies(els, s) ==
    LET S == {i \in 1 .. Len(els) : s >= els[i][1]}
    IN  IF S = {} THEN 0 ELSE Min(S)

ElitePos(els, s) ==
    LET S == {i \in 1 .. Len(els) : s > els[i][1]}
    IN  IF S = {} THEN 0 ELSE Min(S)

\* ElitistGA.fitness: the three insertion branches
EliteInsert(els, pos, add) ==
    IF pos = 0 THEN Append(els, add)
    ELSE IF pos = 1 THEN <<add>> \o els
    ELSE SubSeq(els, 1, pos - 1) \o <<add>> \o SubSeq(els, pos, Len(els))

\* ElitistGA.fitness: drop the last entry when the set is over num_elites
EliteTruncateNever(els, k) == els

EliteTruncateFirst(els, k) ==
    IF Len(els) > k THEN SubSeq(els, 2, Len(els)) ELSE els

EliteTruncate(els, k) ==
    IF Len(els) > k THEN SubSeq(els, 1, Len(els) - 1) ELSE els

\* selection.ElitistGA.fitness: the Elite Set after chromosome e, whose
\* score() is s
EliteAdd(els, k, s, e) ==
    LET sentry == IF Len(els) > 0 THEN els[Len(els)][1] ELSE 0
    IN  IF k > 0 /\ (s > sentry \/ Len(els) < k)
        THEN EliteTruncate(EliteInsert(els, ElitePos(els, s), <<s, e>>), k)
        ELSE els

\* selection.ElitistGA.fitness: the Elite Set after scoring chromosome e
ElitistFitness(els, k, e) == EliteAdd(els, k, score(e), e)

\* behavior.ElitistGA.fitness: its loop has no break, so pos is the last
\* index whose score the new score exceeds; 0 stands for None
BehaviorElitePos(els, s) ==
    LET S == {i \in 1 .. Len(els) : s > els[i][1]}
    IN  IF S = {} THEN 0 ELSE Max(S)

\* behavior.ElitistGA.fitness: the three insertion branches; the third is
\* elites[0:pos] + [add] + elites[pos:-1]
BehaviorEliteInsert(els, pos, add) ==
    IF pos = 0 THEN Append(els, add)
    ELSE IF pos = 1 THEN <<add>> \o els
    ELSE SubSeq(els, 1, pos - 1) \o <<add>> \o SubSeq(els, pos, Len(els) - 1)

\* behavior.ElitistGA.fitness: the Elite Set after chromosome e of score s
BehaviorEliteAdd(els, k, s, e) ==
    LET sentry == IF Len(els) > 0 THEN els[Len(els)][1] ELSE 0
    IN  IF k > 0 /\ (s > sentry \/ Len(els) < k)
        THEN EliteTruncate(BehaviorEliteInsert(els, BehaviorElitePos(els, s), <<s, e>>), k)
        ELSE els

\* FittestTriggerGA.fitness: best_score after scoring chromosome e
FittestTriggerFitness(bs, e) ==
    IF score(e) > bs.score THEN [score |-> score(e), chromosome |-> e] ELSE bs

\* fitness() of the composition: its effect on elites and on best_score
FitnessElites(c, els, k, e) == IF IsElitist(c) THEN ElitistFitness(els, k, e) ELSE els
FitnessBest(c, bs, e) == IF IsTrigger(c) THEN FittestTriggerFitness(bs, e) ELSE bs

\* fitness() raises TypeError: score(None) is None * 2; score of a list is a
\* list, which ElitistGA and FittestTriggerGA then compare with a number.
FitnessRaises(c, k, e) ==
    \/ e.kind = "None"
    \/ e.kind = "list" /\ ((IsElitist(c) /\ k > 0) \/ IsTrigger(c))

\* fitness() called on each member of seq in turn
RECURSIVE ElitesAfter(_, _, _, _)
ElitesAfter(c, els, k, seq) ==
    IF seq = <<>> THEN els
    ELSE ElitesAfter(c, FitnessElites(c, els, k, Head(seq)), k, Tail(seq))

RECURSIVE BestAfter(_, _, _)
BestAfter(c, bs, seq) ==
    IF seq = <<>> THEN bs
    ELSE BestAfter(c, FitnessBest(c, bs, Head(seq)), Tail(seq))

\* ------------------------------------------------------- score_population
\* The value fitness() returns, as a sort key: <<score>> for a chromosome,
\* the doubled list for a list (DummyBinaryGA.score is chromosome * 2).
ScoreKey(e) == IF IsChromosome(e) THEN <<score(e)>> ELSE e.val \o e.val

\* Python's < on two keys of the same kind
RECURSIVE KeyLess(_, _)
KeyLess(a, b) ==
    IF b = <<>> THEN FALSE
    ELSE IF a = <<>> THEN TRUE
    ELSE IF Head(a) /= Head(b) THEN Head(a) < Head(b)
    ELSE KeyLess(Tail(a), Tail(b))

\* list.sort(key=...): a stable ascending sort of <<member, key>> pairs
RECURSIVE InsertSorted(_, _)
InsertSorted(sorted, x) ==
    IF sorted = <<>> THEN <<x>>
    ELSE IF KeyLess(x[2], Head(sorted)[2]) THEN <<x>> \o sorted
    ELSE <<Head(sorted)>> \o InsertSorted(Tail(sorted), x)

RECURSIVE StableSort(_)
StableSort(seq) ==
    IF seq = <<>> THEN <<>>
    ELSE InsertSorted(StableSort(SubSeq(seq, 1, Len(seq) - 1)), seq[Len(seq)])

Reverse(seq) == [i \in 1 .. Len(seq) |-> seq[Len(seq) + 1 - i]]

\* GeneticAlgorithm.score_population: [(member, score)] ranked best first
score_population(pop) ==
    Reverse(StableSort([i \in 1 .. Len(pop) |-> <<pop[i], ScoreKey(pop[i])>>]))

\* score_population raises: on a population that is None, when fitness()
\* raises, or when the sort compares a number with a list (TypeError).
ScorePopulationError(c, k, pop, isNone) ==
    IF isNone THEN "Exception"
    ELSE IF \E i \in 1 .. Len(pop) : FitnessRaises(c, k, pop[i]) THEN "TypeError"
    ELSE IF \E i, j \in 1 .. Len(pop) : pop[i].kind /= pop[j].kind THEN "TypeError"
    ELSE ""


\* ------------------------------------------------------ Python float values
\* A Python float is an IEEE-754 double: DoubleMantissa significant bits, every
\* operation rounded to the nearest, ties to even. A value is held as
\* FloatLimbs limbs: limb 1 is the integer part, the others the fraction in
\* base 2^LimbBits, most significant first; a negative value has every limb
\* negated. Every double below 2^LimbBits whose last significant bit is at
\* least 2^-((FloatLimbs - 1) * LimbBits) is held exactly.
DoubleMantissa == 53

LimbBits == 16

FloatLimbs == 5

LimbBase == Pow2(LimbBits)

FloatBits == FloatLimbs * LimbBits

FloatZero == [i \in 1 .. FloatLimbs |-> 0]

FloatOne == [i \in 1 .. FloatLimbs |-> IF i = 1 THEN 1 ELSE 0]

\* the binary digits of a limb sequence, most significant first
ToBits(limbs) ==
    [j \in 1 .. Len(limbs) * LimbBits |->
        (limbs[1 + ((j - 1) \div LimbBits)]
            \div Pow2(LimbBits - 1 - ((j - 1) % LimbBits))) % 2]

RECURSIVE LimbOf(_, _, _)
LimbOf(bits, first, count) ==
    IF count = 0 THEN 0
    ELSE 2 * LimbOf(bits, first, count - 1) + bits[first + count - 1]

FromBits(bits) ==
    [i \in 1 .. FloatLimbs |-> LimbOf(bits, 1 + (i - 1) * LimbBits, LimbBits)]

\* long division: the first count limbs of r / d, and what remains
RECURSIVE DivLimbs(_, _, _)
DivLimbs(r, d, count) ==
    IF count = 0 THEN <<>>
    ELSE <<r \div d>> \o DivLimbs((r % d) * LimbBase, d, count - 1)

RECURSIVE DivRemainder(_, _, _)
DivRemainder(r, d, count) ==
    IF count = 0 THEN r ELSE DivRemainder((r % d) * LimbBase, d, count - 1)

\* one unit added at digit pos: the carry runs up to the nearest 0 digit
IncFrom(bits, pos, zero) ==
    IF zero = 0 THEN bits
    ELSE [i \in DOMAIN bits |->
            IF i = zero THEN 1 ELSE IF i > zero /\ i <= pos THEN 0 ELSE bits[i]]

LastZero(zeros) == IF zeros = {} THEN 0 ELSE Max(zeros)

IncAt(bits, pos) == IncFrom(bits, pos, LastZero({i \in 1 .. pos : bits[i] = 0}))

\* digits 1 .. last are kept; the digit after them and whatever follows it
\* (sticky: a remainder beyond the digits) decide the rounding
RoundAt(bits, sticky, last) ==
    LET guard == IF last + 1 <= Len(bits) THEN bits[last + 1] ELSE 0
        rest == sticky \/ \E i \in last + 2 .. Len(bits) : bits[i] = 1
        kept == [i \in 1 .. FloatBits |->
                    IF i <= last /\ i <= Len(bits) THEN bits[i] ELSE 0]
    IN  FromBits(IF guard = 1 /\ (rest \/ bits[last] = 1)
                 THEN IncAt(kept, last) ELSE kept)

LeadingOne(ones) == IF ones = {} THEN 0 ELSE Min(ones)

FloatRoundFrom(bits, sticky, lead) ==
    IF lead = 0 THEN FloatZero ELSE RoundAt(bits, sticky, lead + DoubleMantissa - 1)

FloatRound(bits, sticky) ==
    FloatRoundFrom(bits, sticky, LeadingOne({i \in 1 .. Len(bits) : bits[i] = 1}))

FloatNeg(a) == [i \in 1 .. FloatLimbs |-> 0 - a[i]]

FloatIsNegative(a) == \E i \in 1 .. FloatLimbs : a[i] < 0

Quotient(n, d) ==
    FloatRound(ToBits(DivLimbs(n, d, FloatLimbs + 1)),
               DivRemainder(n, d, FloatLimbs + 1) /= 0)

Abs(n) == IF n < 0 THEN 0 - n ELSE n

\* n / d of Python for numbers n and d /= 0 of integer value
FloatDiv(n, d) ==
    IF (n < 0) /= (d < 0) THEN FloatNeg(Quotient(Abs(n), Abs(d)))
    ELSE Quotient(Abs(n), Abs(d))

RECURSIVE AddLimbs(_, _, _, _)
AddLimbs(a, b, pos, carry) ==
    IF pos = 0 THEN <<>>
    ELSE LET t == a[pos] + b[pos] + carry
         IN  Append(AddLimbs(a, b, pos - 1, IF pos = 1 THEN 0 ELSE t \div LimbBase),
                    IF pos = 1 THEN t ELSE t % LimbBase)

AddMagnitudes(a, b) == FloatRound(ToBits(AddLimbs(a, b, FloatLimbs, 0)), FALSE)

\* a + b of Python, for a and b of one sign
FloatAdd(a, b) ==
    IF FloatIsNegative(a) \/ FloatIsNegative(b)
    THEN FloatNeg(AddMagnitudes(FloatNeg(a), FloatNeg(b)))
    ELSE AddMagnitudes(a, b)

\* a < b of Python
FloatLess(a, b) ==
    \E i \in 1 .. FloatLimbs :
        /\ a[i] < b[i]
        /\ \A j \in 1 .. i - 1 : a[j] = b[j]


\* -------------------------------------------------- proportionate selection
\* ProportionateGA.proportion_population, the loop over the ranked population:
\* one (chromosome, score, share range) for each member with score > 0; shares
\* is float(sum of the scores), share = score / shares, tally = tally + share.
RECURSIVE ProportionLoop(_, _, _)
ProportionLoop(ranked, shares, tally) ==
    IF ranked = <<>> THEN <<>>
    ELSE LET s == Head(ranked)[2][1]
         IN  IF s > 0
             THEN <<[chromosome |-> Head(ranked)[1], score |-> s,
                     tally |-> FloatAdd(tally, FloatDiv(s, shares))]>>
                  \o ProportionLoop(Tail(ranked), shares,
                                    FloatAdd(tally, FloatDiv(s, shares)))
             ELSE ProportionLoop(Tail(ranked), shares, tally)

RECURSIVE SumScores(_)
SumScores(ranked) ==
    IF ranked = <<>> THEN 0 ELSE Head(ranked)[2][1] + SumScores(Tail(ranked))

\* self.scored is left empty
ProportionNothing(pop) == <<>>

\* ProportionateGA.proportion_population: the new value of self.scored
proportion_population(pop) ==
    LET ranked == score_population(pop)
    IN  ProportionLoop(ranked, SumScores(ranked), FloatZero)

\* ScalingProportionateGA.proportion_population: scores is the positive scores
\* of the ranking, worst = min(scores), shares = float(sum of t[1] - worst over
\* the whole ranking), and then the loop of ProportionateGA.
PositiveScores(ranked) ==
    {ranked[i][2][1] : i \in {j \in 1 .. Len(ranked) : ranked[j][2][1] > 0}}

RECURSIVE SumScaledScores(_, _)
SumScaledScores(ranked, worst) ==
    IF ranked = <<>> THEN 0
    ELSE (Head(ranked)[2][1] - worst) + SumScaledScores(Tail(ranked), worst)

\* the exception it raises, "" when it returns: min() of an empty list is a
\* ValueError, a score divided by shares = 0.0 a ZeroDivisionError
ScalingProportionError(pop) ==
    LET ranked == score_population(pop)
    IN  IF PositiveScores(ranked) = {} THEN "ValueError"
        ELSE IF SumScaledScores(ranked, Min(PositiveScores(ranked))) = 0
             THEN "ZeroDivisionError"
             ELSE ""

\* the new value of self.scored when it returns
scaling_proportion_population(pop) ==
    LET ranked == score_population(pop)
    IN  ProportionLoop(ranked, SumScaledScores(ranked, Min(PositiveScores(ranked))),
                       FloatZero)

\* score_population() of the composition: ProportionateGA's returns
\* self.scored, (chromosome, score, share range) tuples or None; the other
\* compositions inherit GeneticAlgorithm's, (member, score) tuples
ScorePopulationOf(c, pop, sc, nones) ==
    IF ~IsProportionate(c) THEN score_population(pop)
    ELSE IF "scored" \in nones THEN None
    ELSE [i \in 1 .. Len(sc) |-> <<sc[i].chromosome, <<sc[i].score>>, sc[i].tally>>]

\* ProportionateGA.select: the tickets the loop can stop at, over every number
\* random() can return (the doubles k / 2^53 of [0, 1)): ticket i when some
\* number is below its tally and not below an earlier one, 0 (the loop falls
\* through) when some number is below no tally. The shares of the populations
\* here are far wider than the 2^-53 grid of random().
ProportionateTickets(sc) ==
    {i \in 1 .. Len(sc) :
        /\ FloatLess(IF i = 1 THEN FloatZero ELSE sc[i - 1].tally, sc[i].tally)
        /\ (i = 1 \/ FloatLess(sc[i - 1].tally, FloatOne))}
    \cup (IF sc = <<>> \/ FloatLess(sc[Len(sc)].tally, FloatOne) THEN {0} ELSE {})

\* ProportionateGA.select: the exception it raises, "" when it returns
ProportionateSelectError(c, sc, ticket) ==
    IF "random" \notin InstanceAttributes(c) THEN "AttributeError"
    ELSE IF ticket = 0 THEN "Exception"
    ELSE ""

\* ------------------------------------------------------ tournament selection
\* TournamentGA.__init__: int(math.ceil(self.population_size * 0.02)), the
\* tournament_size when the configuration names none
DefaultTournamentSize(n) == (2 * n + 99) \div 100

\* TournamentGA.select: every outcome it can have, as the chromosome returned
\* and the exception raised ("" when it returns). The members are drawn by
\* self.random.choice, one draw per round; the drawn members are scored and
\* ranked like a population, and the first of the ranking is returned. Without
\* a round the ranking is empty and scored[0] is an IndexError.
TournamentSelect(c, pop, size) ==
    IF size <= 0 THEN {[chromosome |-> None, error |-> "IndexError"]}
    ELSE IF "random" \notin InstanceAttributes(c)
         THEN {[chromosome |-> None, error |-> "AttributeError"]}
         ELSE {[chromosome |->
                    score_population([i \in 1 .. size |-> pop[draw[i]]])[1][1],
                error |-> ""]
               : draw \in [1 .. size -> 1 .. Len(pop)]}

\* ------------------------------------------------- FinishWhenSlowGA.is_finished
\* the defaults of FinishWhenSlowGA.__init__
DefaultThreshold == <<1, 20>>

DefaultLookback == 5

ScoreLookedBackOneMore(bs, lb) == bs[Len(bs) - lb]

\* self.best_scores[-self.lookback]: index -0 is index 0, the first score
ScoreLookedBack(bs, lb) == bs[IF lb = 0 THEN 1 ELSE Len(bs) - lb + 1]

\* gain = (last - first) / first
Gain(bs, lb) ==
    FloatDiv(bs[Len(bs)] - ScoreLookedBack(bs, lb), ScoreLookedBack(bs, lb))

\* the exception is_finished raises, "" when it returns
SlowIsFinishedError(bs, lb) ==
    IF Len(bs) > lb /\ ScoreLookedBack(bs, lb) = 0 THEN "ZeroDivisionError" ELSE ""

\* what it returns: gain <= self.threshold or exceeded_duration
slow_is_finished(it, maxit, bs, th, lb) ==
    IF Len(bs) > lb
    THEN ~FloatLess(FloatDiv(th[1], th[2]), Gain(bs, lb)) \/ it >= maxit
    ELSE it >= maxit

\* ------------------------------------------------------------------ best()
\* best() raises: GeneticAlgorithm.best ranks the population;
\* ProportionateGA.best subscripts self.scored; FittestTriggerGA.best reads
\* best_score.
BestError(c, k, pop, sc, nones) ==
    IF IsProportionate(c)
    THEN IF "scored" \in nones THEN "TypeError"
         ELSE IF sc = <<>> THEN "IndexError" ELSE ""
    ELSE IF IsTrigger(c) THEN ""
    ELSE ScorePopulationError(c, k, pop, "population" \in nones)

\* the chromosome best() returns when it does not raise
Best(c, pop, sc, bs) ==
    IF IsProportionate(c) THEN sc[1].chromosome
    ELSE IF IsTrigger(c) THEN bs.chromosome
    ELSE score_population(pop)[1][1]

\* the populations best() calls fitness() on
BestScores(c, pop) == IF IsProportionate(c) \/ IsTrigger(c) THEN <<>> ELSE pop

\* -------------------------------------------------- crossover and mutation
\* crossover.uniform_bin: the loop over the bits
RECURSIVE UniformBinLoop(_, _, _, _, _, _)
UniformBinLoop(parent1, parent2, bits, locus, child1, child2) ==
    IF locus >= bits THEN <<child1, child2>>
    ELSE LET mask == Pow2(locus)
         IN  UniformBinLoop(parent2, parent1, bits, locus + 1,
                            BitOr(BitAnd(mask, parent1), child1),
                            BitOr(BitAnd(mask, parent2), child2))

uniform_bin(parent1, parent2, bits) == UniformBinLoop(parent1, parent2, bits, 0, 0, 0)

\* DummyBinaryGA.crossover: (p1 & 240) + (p2 & 15), the high and the low half
\* of the chromosome
DummyCrossover(p1, p2) ==
    LET low == Pow2(ChromosomeBits \div 2) - 1
        high == (Pow2(ChromosomeBits) - 1) - low
    IN  BitAnd(p1, high) + BitAnd(p2, low)

\* DummyBinaryGA.mutate: chromosome | bit or chromosome | (~bit & 255)
DummyMutate(chromosome) ==
    {BitOr(chromosome, Pow2(b)) : b \in 0 .. ChromosomeBits - 1}
    \cup {BitOr(chromosome, BitNotMasked(Pow2(b), ChromosomeBits)) : b \in 0 .. ChromosomeBits - 1}

\* mutation.toggle with 0 < probability < 1: any set of bits is flipped
toggle(chromosome, length) ==
    {BitXor(chromosome, flipped) : flipped \in 0 .. (Pow2(length) - 1)}

\* crossover() of the composition on two selected parents: the value it
\* returns. ConfigurableCrossoverGA returns what the operator returns, the
\* list of children; EncodingScheme.crossover has no return statement.
Crossover(c, p1, p2) ==
    IF c = "BinaryGA" THEN None
    ELSE IF c = "ConfigurableCrossoverGA"
    THEN ListOf(uniform_bin(p1.val[1], p2.val[1], ChromosomeBits))
    ELSE Chrom(DummyCrossover(p1.val[1], p2.val[1]))

\* crossover() raises TypeError when a parent is not an int (p & mask)
CrossoverError(c, p1, p2) ==
    IF c /= "BinaryGA" /\ ~(IsChromosome(p1) /\ IsChromosome(p2)) THEN "TypeError" ELSE ""

\* mutate() of the composition
Mutate(c, e) ==
    IF c = "BinaryGA" THEN {Chrom(m) : m \in toggle(e.val[1], ChromosomeBits)}
    ELSE {Chrom(m) : m \in DummyMutate(e.val[1])}

MutateError(c, e) == IF IsChromosome(e) THEN "" ELSE "TypeError"


\* ------------------------------------------------------ Python list slices
\* a slice index of a list of n items: negative indexes count from the end,
\* and the result is clipped to 0..n
SliceIndex(i, n) == IF i < 0 THEN Max({i + n, 0}) ELSE Min({i, n})

\* list[first:last]
Slice(list, first, last) ==
    SubSeq(list, SliceIndex(first, Len(list)) + 1, SliceIndex(last, Len(list)))

\* ---------------------------------------------- int(random.triangular(...))
Isqrt(x) == CHOOSE r \in 0 .. x : r * r <= x /\ (r + 1) * (r + 1) > x

CeilSqrt(x) == CHOOSE r \in 0 .. x : r * r >= x /\ (r = 0 \/ (r - 1) * (r - 1) < x)

\* int(x / 2): int() drops the fraction, towards 0
IntOfHalves(x) == IF x >= 0 THEN x \div 2 ELSE 0 - ((0 - x) \div 2)

\* The integers int(random.triangular(low, high, mode)) can return, over every
\* u = random() of [0, 1); low2, high2, mode2 are twice low, high, mode.
\* triangular computes c = (mode - low) / (high - low) and returns low when
\* high = low; otherwise, for u <= c, low + (high - low) * sqrt(u * c), which
\* for c >= 1 (every u) runs from low to low +- sqrt((high - low)(mode - low));
\* for 0 <= c < 1 the results fill [low, high). (levis never calls it with
\* c < 0.)
TriangularInts(low2, high2, mode2) ==
    LET x == (high2 - low2) * (mode2 - low2)
    IN  IF high2 = low2 THEN {IntOfHalves(low2)}
        ELSE IF x >= (high2 - low2) * (high2 - low2)
             THEN IF high2 > low2
                  THEN IntOfHalves(low2) .. IntOfHalves(low2 + Isqrt(x))
                  ELSE (IF low2 * low2 >= x
                        THEN IntOfHalves(low2 - CeilSqrt(x))
                        ELSE IntOfHalves(low2 - Isqrt(x))) .. IntOfHalves(low2)
             ELSE IF high2 > low2
                  THEN IntOfHalves(low2) .. IntOfHalves(high2 - 1)
                  ELSE IntOfHalves(high2 + 1) .. IntOfHalves(low2)

\* ------------------------------------------------- crossover.single_point
ShorterParent(parent1, parent2) ==
    IF Len(parent1) > Len(parent2) THEN parent2 ELSE parent1

SinglePointKeepOrder(parent1, parent2, locus) ==
    <<Slice(parent1, 0, locus) \o Slice(parent2, locus, Len(parent2)),
      Slice(parent2, 0, locus) \o Slice(parent1, locus, Len(parent1))>>

\* single_point with the locus known: the parents are exchanged when parent1
\* is the longer, child1 = parent1[0:locus] + parent2[locus:], child2 =
\* parent2[0:locus] + parent1[locus:]
single_point(parent1, parent2, locus) ==
    IF Len(parent1) > Len(parent2)
    THEN <<Slice(parent2, 0, locus) \o Slice(parent1, locus, Len(parent1)),
           Slice(parent1, 0, locus) \o Slice(parent2, locus, Len(parent2))>>
    ELSE <<Slice(parent1, 0, locus) \o Slice(parent2, locus, Len(parent2)),
           Slice(parent2, 0, locus) \o Slice(parent1, locus, Len(parent1))>>

\* locus = int(random.triangular(1, len(parent1) / 2, len(parent1) - 2)), on
\* the shorter parent
SinglePointLoci(parent1, parent2) ==
    TriangularInts(2, Len(ShorterParent(parent1, parent2)),
                   2 * Len(ShorterParent(parent1, parent2)) - 4)

\* --------------------------------------------- crossover.single_point_bin
\* a & ~b of Python for non-negative a and b
RECURSIVE BitAndNot(_, _)
BitAndNot(a, b) ==
    IF a = 0 THEN 0
    ELSE (a % 2) * (1 - (b % 2)) + 2 * BitAndNot(a \div 2, b \div 2)

\* single_point_bin with length and locus known: maskr = 2 ** locus - 1,
\* maskl = (2 ** length - 1) & ~maskr, child1 = parent1 & maskl | parent2 &
\* maskr, child2 = parent2 & maskl | parent1 & maskr
single_point_bin(parent1, parent2, length, locus) ==
    LET maskr == Pow2(locus) - 1
        maskl == BitAndNot(Pow2(length) - 1, maskr)
    IN  <<BitOr(BitAnd(parent1, maskl), BitAnd(parent2, maskr)),
          BitOr(BitAnd(parent2, maskl), BitAnd(parent1, maskr))>>

\* every outcome of single_point_bin(parent1, parent2, length, locus), an
\* argument being <<>> for None: without either it raises ValueError; without
\* a locus it draws int(random.triangular(1, length / 2, length - 2)); without
\* a length it takes length = 2 * locus
SinglePointBinOutcomes(parent1, parent2, length, locus) ==
    IF locus = <<>> /\ length = <<>>
    THEN {[children |-> <<>>, drawn |-> <<>>, error |-> "ValueError"]}
    ELSE IF locus = <<>>
    THEN {[children |-> single_point_bin(parent1, parent2, length[1], l),
           drawn |-> <<l>>, error |-> ""]
          : l \in TriangularInts(2, length[1], 2 * length[1] - 4)}
    ELSE {[children |-> single_point_bin(parent1, parent2,
                           IF length = <<>> THEN 2 * locus[1] ELSE length[1],
                           locus[1]),
           drawn |-> <<>>, error |-> ""]}

\* ------------------------------- crossover.ordered, crossover.partially_matched
\* item in list
In(item, list) == \E i \in 1 .. Len(list) : list[i] = item

\* fill(child, parent) of ordered(): whatever parent it is given, it appends
\* the values of parent2 that child does not hold yet, in parent2's order
RECURSIVE Fill(_, _)
Fill(child, parent2) ==
    IF parent2 = <<>> THEN child
    ELSE Fill(IF In(Head(parent2), child) THEN child ELSE Append(child, Head(parent2)),
              Tail(parent2))

\* ordered() with the point known
ordered(parent1, parent2, point) ==
    <<Fill(Slice(parent1, 0, point), parent2), Fill(Slice(parent2, 0, point), parent2)>>

\* pmx() before its loop: child = parent1[0:l1] + matching + parent1[l2:]
PmxUnrepaired(parent1, parent2, l1, l2) ==
    Slice(parent1, 0, l1) \o Slice(parent2, l1, l2) \o Slice(parent1, l2, Len(parent1))

\* the loop with child.index(subj) for the locus
RECURSIVE PmxLoopAtChildIndex(_, _, _, _, _)
PmxLoopAtChildIndex(child, parent1, tofind, tomatch, k) ==
    IF k > Len(tofind) THEN child
    ELSE PmxLoopAtChildIndex(
             [child EXCEPT ![Min({i \in 1 .. Len(child) : child[i] = tomatch[k]})]
                             = tofind[k]],
             parent1, tofind, tomatch, k + 1)

\* the loop of pmx(): child[parent1.index(tomatch[k])] = tofind[k]
RECURSIVE PmxLoop(_, _, _, _, _)
PmxLoop(child, parent1, tofind, tomatch, k) ==
    IF k > Len(tofind) THEN child
    ELSE PmxLoop([child EXCEPT ![Min({i \in 1 .. Len(parent1) : parent1[i] = tomatch[k]})]
                            = tofind[k]],
                 parent1, tofind, tomatch, k + 1)

\* pmx(parent1, parent2) inside partially_matched(), l1 <= l2 being the cuts
pmx(parent1, parent2, l1, l2) ==
    LET matching == Slice(parent2, l1, l2)
        displaced == Slice(parent1, l1, l2)
    IN  PmxLoop(Slice(parent1, 0, l1) \o matching \o Slice(parent1, l2, Len(parent1)),
                parent1,
                SelectSeq(displaced, LAMBDA item : ~In(item, matching)),
                SelectSeq(matching, LAMBDA item : ~In(item, displaced)),
                1)

\* partially_matched(): third = len(parent1) // 3, l1 =
\* int(random.triangular(1, third, third * 2)), l2 =
\* int(random.triangular(third, third * 2, len(parent1) - 1)), exchanged when
\* l2 < l1
PartiallyMatchedOutcomes(parent1, parent2) ==
    LET third == Len(parent1) \div 3
    IN  {[children |-> <<pmx(parent1, parent2, Min({l1, l2}), Max({l1, l2})),
                         pmx(parent2, parent1, Min({l1, l2}), Max({l1, l2}))>>,
          drawn |-> <<l1, l2>>, error |-> ""]
         : l1 \in TriangularInts(2, 2 * third, 4 * third),
           l2 \in TriangularInts(2 * third, 4 * third, 2 * Len(parent1) - 2)}

\* ordered(): point = random.randint(0, len(parent1) - 1) when None (a
\* ValueError for an empty parent1)
OrderedOutcomes(parent1, parent2, point) ==
    IF point = <<>> /\ parent1 = <<>>
    THEN {[children |-> <<>>, drawn |-> <<>>, error |-> "ValueError"]}
    ELSE {[children |-> ordered(parent1, parent2, p),
           drawn |-> IF point = <<>> THEN <<p>> ELSE <<>>, error |-> ""]
          : p \in IF point = <<>> THEN 0 .. Len(parent1) - 1 ELSE {point[1]}}

\* ---------------------------------------------- crossover.multiple_points
RECURSIVE MulLimbs(_, _, _, _)
MulLimbs(a, n, pos, carry) ==
    IF pos = 0 THEN <<>>
    ELSE LET t == a[pos] * n + carry
         IN  Append(MulLimbs(a, n, pos - 1, IF pos = 1 THEN 0 ELSE t \div LimbBase),
                    IF pos = 1 THEN t ELSE t % LimbBase)

\* a * n of Python for a float a >= 0 and an int n >= 0
FloatMul(a, n) == FloatRound(ToBits(MulLimbs(a, n, FloatLimbs, 0)), FALSE)

\* int(i / points * len(parent1)) + 1: the floor of draw i, the ceil of draw i - 1
PointFloor(i, points, n) == FloatMul(FloatDiv(i, points), n)[1] + 1

\* the loci the loop over range(0, points) can draw:
\* loci[i] = random.randint(floor, ceil), both ends included
RandomLoci(points, n) ==
    {loci \in [1 .. points -> 1 .. n + 1] :
        \A i \in 1 .. points :
            loci[i] \in PointFloor(i - 1, points, n) .. PointFloor(i, points, n)}

\* the children are the parents themselves (no segment is exchanged)
MultiplePointsKeepParents(parent1, parent2, loci) == <<parent1, parent2>>

\* for locus in loci: each child takes [prev:locus] of its parent, then the
\* parents are exchanged; after the loop each child takes the rest
RECURSIVE MultiplePointsLoop(_, _, _, _, _, _)
MultiplePointsLoop(parent1, parent2, loci, prev, child1, child2) ==
    IF loci = <<>>
    THEN <<child1 \o Slice(parent1, prev, Len(parent1)),
           child2 \o Slice(parent2, prev, Len(parent2))>>
    ELSE MultiplePointsLoop(parent2, parent1, Tail(loci), Head(loci),
                            child1 \o Slice(parent1, prev, Head(loci)),
                            child2 \o Slice(parent2, prev, Head(loci)))

multiple_points(parent1, parent2, loci) ==
    MultiplePointsLoop(parent1, parent2, loci, 0, <<>>, <<>>)

\* loci is <<>> for None, otherwise <<the list>>
MultiplePointsOutcomes(parent1, parent2, loci, points) ==
    IF loci /= <<>>
    THEN {[children |-> multiple_points(parent1, parent2, loci[1]),
           drawn |-> <<>>, error |-> ""]}
    ELSE IF 3 * points > Len(parent1)
    THEN {[children |-> <<>>, drawn |-> <<>>, error |-> "ValueError"]}
    ELSE {[children |-> multiple_points(parent1, parent2, drawnLoci),
           drawn |-> drawnLoci, error |-> ""]
          : drawnLoci \in RandomLoci(points, Len(parent1))}

\* ---------------------------------------------------------- ero.recombine
\* the names bound at module level in ero.py
EroGlobals == {"random", "recombine", "adjacency_matrix", "fewest_neighbors"}

\* recombine(parent1, parent2): node = parent1[0] is an IndexError for an empty
\* parent1; the first pass of the loop appends node to child, removes it from
\* unused and then reads the name neighbors, which recombine never assigns:
\* the lookup goes to the module's names and raises NameError.
\* edge_recombination() returns [recombine(parent1, parent2)].
RecombineOutcomes(parent1, parent2) ==
    {[children |-> <<>>, drawn |-> <<>>,
      error |-> IF parent1 = <<>> THEN "IndexError"
                ELSE IF "neighbors" \notin EroGlobals THEN "NameError" ELSE ""]}

\* adjacency_matrix(parent1, parent2): a dict from each element v to a set;
\* for each parent and each index k (from 0) of v in it the set takes
\* parent[left] and parent[right], where end = len(parent1) - 1,
\* left = k - 1 if k > 0 else end, and right = k if k < end else 0
adjacency_matrix(parent1, parent2) ==
    LET end == Len(parent1) - 1
        left(k) == IF k > 0 THEN k - 1 ELSE end
        right(k) == IF k < end THEN k ELSE 0
        added(parent, v) ==
            UNION {{parent[left(k) + 1], parent[right(k) + 1]}
                   : k \in {i \in 0 .. Len(parent) - 1 : parent[i + 1] = v}}
    IN  [v \in {parent1[i] : i \in 1 .. Len(parent1)}
               \cup {parent2[i] : i \in 1 .. Len(parent2)} |->
            added(parent1, v) \cup added(parent2, v)]

\* ------------------------------------------------------------- the engine
\* GeneticAlgorithm.is_finished
is_finished_late(it, maxit) == it > maxit

is_finished(it, maxit) == it >= maxit

\* select() of the composition: every outcome it can have, as the chromosome
\* returned, the Elite Set and best_score that fitness() leaves, and the
\* exception raised ("" when it returns). DummyBinaryGA.select is
\* random.choice(population) followed by fitness(chromosome).
Select(c, pop, sc, els, bs, k) ==
    IF IsProportionate(c)
    THEN {LET err == ProportionateSelectError(c, sc, ticket)
          IN  [chromosome |-> IF err = "" THEN sc[ticket].chromosome ELSE None,
               elites |-> els, best_score |-> bs, error |-> err]
          : ticket \in ProportionateTickets(sc)}
    ELSE {IF FitnessRaises(c, k, pop[i])
          THEN [chromosome |-> pop[i], elites |-> els, best_score |-> bs,
                error |-> "TypeError"]
          ELSE [chromosome |-> pop[i],
                elites |-> IF IsChromosome(pop[i])
                           THEN FitnessElites(c, els, k, pop[i]) ELSE els,
                best_score |-> IF IsChromosome(pop[i])
                               THEN FitnessBest(c, bs, pop[i]) ELSE bs,
                error |-> ""]
          : i \in 1 .. Len(pop)}

\* ElitistGA.pre_generate: [elite[1] for elite in self.elites]
EliteChromosomesByScore(els) == [i \in 1 .. Len(els) |-> Chrom(els[i][1])]

EliteChromosomes(els) == [i \in 1 .. Len(els) |-> els[i][2]]

Classes == {"DummyBinaryGA", "ElitistGAUT", "FittestTriggerGAUT", "ProportionateGAUT"}

\* The state after construction, for the compositions in cs.
InitOf(cs) ==
    /\ cls \in cs
    /\ population_size \in 1 .. MaxPopulationSize
    /\ \E configured \in 0 .. MaxIterations :
           max_iterations = MaxIterationsOf(configured)
    /\ crossover_prob = 2
    /\ mutation_prob = 1
    /\ \E pct \in 0 .. PctUnits :
           num_elites = IF IsElitist(cls) THEN NumElites(pct, population_size) ELSE 0
    /\ tournament_size = 0
    /\ threshold = <<0, 1>>
    /\ lookback = 0
    /\ best_scores = <<>>
    /\ iteration = 0
    /\ population = <<>>
    /\ next_generation = <<>>
    /\ elites = <<>>
    /\ scored = <<>>
    /\ best_score = [score |-> 0, chromosome |-> None]
    /\ none_attrs = {"population"} \cup (IF IsProportionate(cls) THEN {"scored"} ELSE {})
    /\ pc = "start"
    /\ result = None
    /\ error = ""
    /\ interrupted = FALSE
    /\ NoCall
    /\ injected = <<>>
    /\ evaluated = <<>>

Init == InitOf(Classes)

config == <<cls, population_size, max_iterations, crossover_prob, mutation_prob,
            num_elites, tournament_size, threshold, lookback, best_scores,
            parents, arguments, children, drawn, locals>>

\* solve(): if self.population is None: self.seed()
Seed ==
    /\ pc = "start"
    /\ population' \in [1 .. population_size -> create]
    /\ none_attrs' = none_attrs \ {"population"}
    /\ pc' = "loop"
    /\ UNCHANGED <<config, iteration, next_generation, elites, scored, best_score,
                   result, error, interrupted, injected, evaluated>>

\* solve(): while not self.is_finished(): self.iteration += 1
Loop ==
    /\ pc = "loop"
    /\ ~is_finished(iteration, max_iterations)
    /\ iteration' = iteration + 1
    /\ pc' = "pre_generate"
    /\ UNCHANGED <<config, population, next_generation, elites, scored, best_score,
                   none_attrs, result, error, interrupted, injected, evaluated>>

\* solve(): return self.best(), on the state the loop left
Finish(pop, ng, sc, nones) ==
    LET err == BestError(cls, num_elites, pop, sc, nones)
    IN  /\ error' = err
        /\ pc' = IF err = "" THEN "returned" ELSE "raised"
        /\ result' = IF err = "" THEN Best(cls, pop, sc, best_score) ELSE None
        /\ elites' = IF err = ""
                     THEN ElitesAfter(cls, elites, num_elites, BestScores(cls, pop))
                     ELSE elites
        /\ population' = pop
        /\ next_generation' = ng
        /\ scored' = sc
        /\ none_attrs' = nones

Return ==
    /\ pc = "loop"
    /\ is_finished(iteration, max_iterations)
    /\ Finish(population, next_generation, scored, none_attrs)
    /\ UNCHANGED <<config, iteration, best_score, interrupted, injected, evaluated>>

\* an exception other than KeyboardInterrupt leaves solve()
Raise(err) ==
    /\ pc' = "raised"
    /\ error' = err
    /\ UNCHANGED <<config, iteration, population, next_generation, scored,
                   none_attrs, result, interrupted, injected, evaluated>>

\* pre_generate() of the composition
PreGenerate ==
    /\ pc = "pre_generate"
    /\ pc' = "generate"
    /\ IF IsElitist(cls) /\ Len(elites) > 0
       THEN /\ next_generation' = next_generation \o EliteChromosomes(elites)
            /\ injected' = elites
       ELSE /\ next_generation' = next_generation
            /\ injected' = <<>>
    /\ IF IsProportionate(cls) /\ "scored" \in none_attrs
       THEN /\ scored' = proportion_population(population)
            /\ none_attrs' = none_attrs \ {"scored"}
       ELSE UNCHANGED <<scored, none_attrs>>
    /\ UNCHANGED <<config, iteration, population, elites, best_score, result,
                   error, interrupted, evaluated>>

\* generate(): one pass of the loop appends child
Append1(child, els, bs) ==
    /\ next_generation' = Append(next_generation, child)
    /\ elites' = els
    /\ best_score' = bs
    /\ UNCHANGED <<config, iteration, population, scored, none_attrs, pc, result,
                   error, interrupted, injected, evaluated>>

Fail(err, els, bs) ==
    /\ elites' = els
    /\ best_score' = bs
    /\ Raise(err)

\* generate(): ticket < crossover_prob: child = self.crossover()
GenerateCrossover ==
    /\ pc = "generate"
    /\ Len(next_generation) < population_size
    /\ \E ticket \in 0 .. ProbUnits - 1 :
        /\ ticket < crossover_prob
        /\ \E s1 \in Select(cls, population, scored, elites, best_score, num_elites) :
            IF s1.error /= "" THEN Fail(s1.error, s1.elites, s1.best_score)
            ELSE \E s2 \in Select(cls, population, scored, s1.elites, s1.best_score,
                                  num_elites) :
                IF s2.error /= "" THEN Fail(s2.error, s2.elites, s2.best_score)
                ELSE IF CrossoverError(cls, s1.chromosome, s2.chromosome) /= ""
                THEN Fail(CrossoverError(cls, s1.chromosome, s2.chromosome),
                          s2.elites, s2.best_score)
                ELSE Append1(Crossover(cls, s1.chromosome, s2.chromosome),
                             s2.elites, s2.best_score)

\* generate(): ticket < crossover_prob + mutation_prob:
\* child = self.mutate(self.select())
GenerateMutate ==
    /\ pc = "generate"
    /\ Len(next_generation) < population_size
    /\ \E ticket \in 0 .. ProbUnits - 1 :
        /\ ~(ticket < crossover_prob)
        /\ ticket < crossover_prob + mutation_prob
        /\ \E s1 \in Select(cls, population, scored, elites, best_score, num_elites) :
            IF s1.error /= "" THEN Fail(s1.error, s1.elites, s1.best_score)
            ELSE IF MutateError(cls, s1.chromosome) /= ""
            THEN Fail(MutateError(cls, s1.chromosome), s1.elites, s1.best_score)
            ELSE \E child \in Mutate(cls, s1.chromosome) :
                    Append1(child, s1.elites, s1.best_score)

\* generate(): otherwise child = self.select()
GenerateCopy ==
    /\ pc = "generate"
    /\ Len(next_generation) < population_size
    /\ \E ticket \in 0 .. ProbUnits - 1 :
        /\ ~(ticket < crossover_prob)
        /\ ~(ticket < crossover_prob + mutation_prob)
        /\ \E s1 \in Select(cls, population, scored, elites, best_score, num_elites) :
            IF s1.error /= "" THEN Fail(s1.error, s1.elites, s1.best_score)
            ELSE Append1(s1.chromosome, s1.elites, s1.best_score)

\* post_generate() of the composition, entered when generate()'s loop ends
PostGenerate ==
    /\ pc = "generate"
    /\ ~(Len(next_generation) < population_size)
    /\ population' = next_generation
    /\ next_generation' = <<>>
    /\ IF IsProportionate(cls)
       THEN scored' = proportion_population(next_generation)
       ELSE UNCHANGED scored
    /\ pc' = "loop"
    /\ UNCHANGED <<config, iteration, elites, best_score, none_attrs, result,
                   error, interrupted, injected, evaluated>>

\* The prefixes of a ranking that proportion_population has built when it is
\* cut short after self.scored = [].
Prefixes(seq) == {SubSeq(seq, 1, n) : n \in 0 .. Len(seq)}

\* The states a KeyboardInterrupt can leave: inside pre_generate (before or
\* within proportion_population), between two passes of generate(), inside
\* post_generate (before or after each assignment, within
\* proportion_population).
InterruptedStates ==
    LET now == [population |-> population, next_generation |-> next_generation,
                scored |-> scored, none_attrs |-> none_attrs]
    IN  IF pc = "pre_generate"
        THEN {now}
             \cup (IF IsProportionate(cls) /\ "scored" \in none_attrs
                   THEN {[now EXCEPT !.scored = sc, !.none_attrs = none_attrs \ {"scored"}]
                         : sc \in Prefixes(proportion_population(population))}
                   ELSE {})
        ELSE IF Len(next_generation) < population_size
        THEN {now}
        ELSE {now,
              [now EXCEPT !.population = next_generation],
              [now EXCEPT !.population = next_generation, !.next_generation = <<>>]}
             \cup (IF IsProportionate(cls)
                   THEN {[now EXCEPT !.population = next_generation,
                                     !.next_generation = <<>>, !.scored = sc]
                         : sc \in Prefixes(proportion_population(next_generation))}
                   ELSE {})

\* solve(): except KeyboardInterrupt: pass, then return self.best()
Interrupt ==
    /\ pc \in {"pre_generate", "generate"}
    /\ interrupted' = TRUE
    /\ \E st \in InterruptedStates :
           Finish(st.population, st.next_generation, st.scored, st.none_attrs)
    /\ UNCHANGED <<config, iteration, best_score, injected, evaluated>>

Generation ==
    \/ Seed
    \/ Loop
    \/ PreGenerate
    \/ GenerateCrossover
    \/ GenerateMutate
    \/ GenerateCopy
    \/ PostGenerate
    \/ Return

Next == Generation \/ Interrupt

Spec == Init /\ [][Next]_vars


\* The compositions that run GeneticAlgorithm.solve with the harness's
\* select() and no Elite Set (ProportionateGA.select raises in the first pass
\* of generate()).
LoopClasses == {"DummyBinaryGA", "FittestTriggerGAUT"}

\* The generational loop when no interruption signal arrives; solve() is
\* never suspended, so a step that can be taken is taken.
LoopSpec == InitOf(LoopClasses) /\ [][Generation]_vars /\ WF_vars(Generation)

\* The compositions that differ in crossover().
CrossoverClasses == {"DummyBinaryGA", "ConfigurableCrossoverGA", "BinaryGA"}

CrossoverSpec == InitOf(CrossoverClasses) /\ [][Next]_vars

\* ------------------------------------------------- the Elite Set on its own
\* An ElitistGA object whose fitness() is called on one chromosome after
\* another (tests/test_selection.py, test_insert).
EliteInitOf(classes) ==
    /\ cls \in classes
    /\ population_size \in 1 .. MaxElitePopulation
    /\ max_iterations = 1
    /\ crossover_prob = 2
    /\ mutation_prob = 1
    /\ \E pct \in 0 .. PctUnits : num_elites = NumElites(pct, population_size)
    /\ tournament_size = 0
    /\ threshold = <<0, 1>>
    /\ lookback = 0
    /\ best_scores = <<>>
    /\ iteration = 0
    /\ population = <<>>
    /\ next_generation = <<>>
    /\ elites = <<>>
    /\ scored = <<>>
    /\ best_score = [score |-> 0, chromosome |-> None]
    /\ none_attrs = {"population"}
    /\ pc = "start"
    /\ result = None
    /\ error = ""
    /\ interrupted = FALSE
    /\ NoCall
    /\ injected = <<>>
    /\ evaluated = <<>>

EliteInit == EliteInitOf({"ElitistGAUT"})

\* ga.fitness(chromosome)
Fitness ==
    /\ Len(evaluated) < MaxEvaluations
    /\ \E c \in 0 .. MaxEliteInput :
        /\ elites' = FitnessElites(cls, elites, num_elites, Chrom(c))
        /\ evaluated' = Append(evaluated, Chrom(c))
    /\ UNCHANGED <<config, iteration, population, next_generation, scored,
                   best_score, none_attrs, pc, result, error, interrupted, injected>>

EliteSpec == EliteInit /\ [][Fitness]_vars

\* A selection.ElitistGA or a behavior.ElitistGA object over any score(): it
\* is fed scored chromosomes, fitness(chromosome) with score(chromosome) = s;
\* evaluated records the (score, chromosome) pairs fed.
IsBehaviorElitist(c) == c = "behavior.ElitistGA"

ScoredInit == EliteInitOf({"ElitistGAUT", "behavior.ElitistGA"})

ScoredFitness ==
    /\ Len(evaluated) < MaxScoredEvaluations
    /\ \E c \in 0 .. MaxScoredChromosome, s \in 0 .. MaxScoredScore :
        /\ elites' = IF IsBehaviorElitist(cls)
                      THEN BehaviorEliteAdd(elites, num_elites, s, Chrom(c))
                      ELSE EliteAdd(elites, num_elites, s, Chrom(c))
        /\ evaluated' = Append(evaluated, <<s, Chrom(c)>>)
    /\ UNCHANGED <<config, iteration, population, next_generation, scored,
                   best_score, none_attrs, pc, result, error, interrupted, injected>>

ScoredSpec == ScoredInit /\ [][ScoredFitness]_vars

\* --------------------------------------- proportionate selection on its own
\* A ProportionateGA object with a seeded population: the population is
\* ranked (proportion_population), then select() is called. (A TournamentGA
\* object has no self.scored and takes its tournament_size from the
\* configuration or from the population size.)
SelectInitOf(klass) ==
    /\ cls = klass
    /\ population_size \in 1 .. MaxSelectPopulation
    /\ population \in [1 .. population_size -> {Chrom(c) : c \in 0 .. MaxSelectChromosome}]
    /\ max_iterations = 1
    /\ crossover_prob = 2
    /\ mutation_prob = 1
    /\ num_elites = 0
    /\ tournament_size \in IF IsTournament(klass)
                           THEN {DefaultTournamentSize(population_size)}
                                \cup 0 .. MaxTournamentSize
                           ELSE {0}
    /\ threshold = <<0, 1>>
    /\ lookback = 0
    /\ best_scores = <<>>
    /\ iteration = 0
    /\ next_generation = <<>>
    /\ elites = <<>>
    /\ scored = <<>>
    /\ best_score = [score |-> 0, chromosome |-> None]
    /\ none_attrs = IF IsProportionate(klass) THEN {"scored"} ELSE {}
    /\ pc = "seeded"
    /\ result = None
    /\ error = ""
    /\ interrupted = FALSE
    /\ NoCall
    /\ injected = <<>>
    /\ evaluated = <<>>

SelectInit == SelectInitOf("ProportionateGAUT")

\* self.proportion_population(); ScalingProportionateGA's raises before
\* (ValueError) or after (ZeroDivisionError) it has assigned self.scored = []
ProportionPopulation ==
    /\ pc = "seeded"
    /\ LET err == IF IsScaling(cls) THEN ScalingProportionError(population) ELSE ""
       IN  /\ scored' = IF err /= "" THEN <<>>
                        ELSE IF IsScaling(cls)
                             THEN scaling_proportion_population(population)
                             ELSE proportion_population(population)
           /\ none_attrs' = IF err = "ValueError" THEN none_attrs
                            ELSE none_attrs \ {"scored"}
           /\ error' = err
           /\ pc' = IF err = "" THEN "ranked" ELSE "raised"
    /\ UNCHANGED <<config, iteration, population, next_generation, elites,
                   best_score, result, interrupted, injected, evaluated>>

\* self.select()
SelectCall ==
    /\ pc = "ranked"
    /\ \E s \in Select(cls, population, scored, elites, best_score, num_elites) :
        /\ result' = s.chromosome
        /\ error' = s.error
    /\ pc' = "selected"
    /\ UNCHANGED <<config, iteration, population, next_generation, elites, scored,
                   best_score, none_attrs, interrupted, injected, evaluated>>

SelectNext == ProportionPopulation \/ SelectCall

SelectSpec == SelectInit /\ [][SelectNext]_vars

\* the same for a ScalingProportionateGA object
ScalingInit == SelectInitOf("ScalingProportionateGAUT")

ScalingSpec == ScalingInit /\ [][SelectNext]_vars


\* ----------------------------------------- tournament selection on its own
\* A TournamentGA object with a seeded population; select() is called.
TournamentInit == SelectInitOf("TournamentGAUT")

\* self.select()
TournamentSelectCall ==
    /\ pc = "seeded"
    /\ \E s \in TournamentSelect(cls, population, tournament_size) :
        /\ result' = s.chromosome
        /\ error' = s.error
    /\ pc' = "selected"
    /\ UNCHANGED <<config, iteration, population, next_generation, elites, scored,
                   best_score, none_attrs, interrupted, injected, evaluated>>

TournamentSpec == TournamentInit /\ [][TournamentSelectCall]_vars

\* ------------------------------------------- FinishWhenSlowGA.is_finished()
\* A FinishWhenSlowGA object some generations into a run, or with the best
\* scores the test cases assign; is_finished() is called.
SlowHistory == <<10, 13, 15, 16, 16, 16, 16, 16>>

FastHistory == <<10, 13, 15, 17, 18, 18, 19>>

Bool(b) == [kind |-> "bool", val |-> <<b>>]

SlowInit ==
    /\ cls = "FinishWhenSlowGAUT"
    /\ population_size = 1
    /\ max_iterations = 1
    /\ crossover_prob = 2
    /\ mutation_prob = 1
    /\ num_elites = 0
    /\ tournament_size = 0
    /\ iteration \in 0 .. 1
    /\ \/ /\ threshold \in {<<0, 1>>, DefaultThreshold, <<1, 2>>, <<1, 1>>}
          /\ lookback \in 0 .. MaxLookback
          /\ \E n \in 0 .. MaxHistory : best_scores \in [1 .. n -> 0 .. MaxBestScore]
       \/ /\ threshold = DefaultThreshold
          /\ lookback = DefaultLookback
          /\ best_scores \in {SlowHistory, FastHistory}
    /\ population = <<>>
    /\ next_generation = <<>>
    /\ elites = <<>>
    /\ scored = <<>>
    /\ best_score = [score |-> 0, chromosome |-> None]
    /\ none_attrs = {"population"}
    /\ pc = "running"
    /\ result = None
    /\ error = ""
    /\ interrupted = FALSE
    /\ NoCall
    /\ injected = <<>>
    /\ evaluated = <<>>

\* self.is_finished()
SlowIsFinished ==
    /\ pc = "running"
    /\ error' = SlowIsFinishedError(best_scores, lookback)
    /\ result' = IF error' /= "" THEN None
                 ELSE Bool(slow_is_finished(iteration, max_iterations, best_scores,
                                            threshold, lookback))
    /\ pc' = "checked"
    /\ UNCHANGED <<config, iteration, population, next_generation, elites, scored,
                   best_score, none_attrs, interrupted, injected, evaluated>>

SlowSpec == SlowInit /\ [][SlowIsFinished]_vars

\* -------------------------------------------- crossover functions on their own
\* A function of crossover.py is called on two parents; no GA object is
\* involved.
NoObject ==
    /\ cls = "crossover"
    /\ population_size = 0
    /\ max_iterations = 0
    /\ crossover_prob = 0
    /\ mutation_prob = 0
    /\ num_elites = 0
    /\ tournament_size = 0
    /\ threshold = <<0, 1>>
    /\ lookback = 0
    /\ best_scores = <<>>
    /\ iteration = 0
    /\ population = <<>>
    /\ next_generation = <<>>
    /\ elites = <<>>
    /\ scored = <<>>
    /\ best_score = [score |-> 0, chromosome |-> None]
    /\ none_attrs = {}
    /\ result = None
    /\ interrupted = FALSE
    /\ injected = <<>>
    /\ evaluated = <<>>

object == <<cls, population_size, max_iterations, crossover_prob, mutation_prob,
            num_elites, tournament_size, threshold, lookback, best_scores,
            iteration, population, next_generation, elites, scored, best_score,
            none_attrs, result, interrupted, injected, evaluated>>

\* the call has not started
Called == pc = "call" /\ error = "" /\ children = <<>> /\ drawn = <<>> /\ locals = <<>>

\* the call ends with one of the outcomes: the children returned or the
\* exception raised, and the numbers drawn on the way
CallEnds(outcomes) ==
    /\ pc = "call"
    /\ \E o \in outcomes :
        /\ children' = o.children
        /\ drawn' = o.drawn
        /\ error' = o.error
        /\ pc' = IF o.error = "" THEN "returned" ELSE "raised"
    /\ UNCHANGED <<object, parents, arguments, locals>>

Lists == UNION {[1 .. n -> 1 .. MaxAllele] : n \in 0 .. MaxListLength}

SinglePointInit ==
    /\ NoObject
    /\ Called
    /\ parents \in Lists \X Lists
    /\ arguments \in {<<>>} \cup {<<locus>> : locus \in 0 .. MaxListLength}

\* single_point(parent1, parent2, locus)
SinglePoint ==
    CallEnds({[children |-> single_point(parents[1], parents[2], locus),
             drawn |-> IF arguments = <<>> THEN <<locus>> ELSE <<>>,
             error |-> ""]
            : locus \in IF arguments = <<>>
                        THEN SinglePointLoci(parents[1], parents[2])
                        ELSE {arguments[1]}})

SinglePointSpec == SinglePointInit /\ [][SinglePoint]_vars

\* single_point_bin(parent1, parent2, length, locus) on chromosomes of up to
\* MaxWidth bits, and on the chromosomes of the test cases
SinglePointBinInit ==
    /\ NoObject
    /\ Called
    /\ \/ /\ parents \in (0 .. Pow2(MaxWidth) - 1) \X (0 .. Pow2(MaxWidth) - 1)
          /\ arguments \in ({<<>>} \cup {<<length>> : length \in 0 .. MaxWidth})
                            \X ({<<>>} \cup {<<locus>> : locus \in 0 .. MaxWidth})
       \/ /\ parents = <<992, 31>>
          /\ arguments \in {<<<<10>>, <<5>>>>, <<<<>>, <<5>>>>, <<<<10>>, <<>>>>}

SinglePointBin ==
    CallEnds(SinglePointBinOutcomes(parents[1], parents[2], arguments[1], arguments[2]))

SinglePointBinSpec == SinglePointBinInit /\ [][SinglePointBin]_vars

\* ordered(parent1, parent2, point), partially_matched(parent1, parent2) and
\* edge_recombination(parent1, parent2) on
\* two permutations of 1..n; the functions only compare alleles, so parent1 is
\* taken in ascending order. arguments is the function called and its point.
PermutationsOf(n) ==
    {list \in [1 .. n -> 1 .. n] : \A i, j \in 1 .. n : list[i] = list[j] => i = j}

PermutationInit ==
    /\ NoObject
    /\ Called
    /\ \E n \in 0 .. MaxPermutationLength :
        /\ parents \in {[i \in 1 .. n |-> i]} \X PermutationsOf(n)
        /\ arguments \in {<<"partially_matched", <<>>>>, <<"edge_recombination", <<>>>>}
               \cup {<<"ordered", point>>
                     : point \in {<<>>} \cup {<<p>> : p \in 0 .. n}}

Ordered ==
    /\ arguments[1] = "ordered"
    /\ CallEnds(OrderedOutcomes(parents[1], parents[2], arguments[2]))

PartiallyMatched ==
    /\ arguments[1] = "partially_matched"
    /\ CallEnds(PartiallyMatchedOutcomes(parents[1], parents[2]))

\* uniform_bin(parent1, parent2, bits) on parents of up to MaxWidth bits; the
\* function draws nothing, so the call has one outcome
UniformBinOutcomes(parent1, parent2, bits) ==
    {[children |-> uniform_bin(parent1, parent2, bits), drawn |-> <<>>, error |-> ""]}

UniformBinInit ==
    /\ NoObject
    /\ Called
    /\ parents \in (0 .. Pow2(MaxWidth) - 1) \X (0 .. Pow2(MaxWidth) - 1)
    /\ arguments \in {<<bits>> : bits \in 0 .. MaxWidth}

UniformBin == CallEnds(UniformBinOutcomes(parents[1], parents[2], arguments[1]))

UniformBinSpec == UniformBinInit /\ [][UniformBin]_vars

\* multiple_points(parent1, parent2, loci, points) on parents that differ in
\* every allele: parent1 = [1 .. n], parent2 = [-1 .. -m]; the loci are given
\* (in any order; points keeps its default) or None with points given
DefaultPoints == 2

LociLists == UNION {[1 .. k -> 0 .. MaxPointsLength + 1] : k \in 0 .. MaxPoints}

MultiplePointsInit ==
    /\ NoObject
    /\ Called
    /\ \E n, m \in 0 .. MaxPointsLength :
        parents = <<[i \in 1 .. n |-> i], [i \in 1 .. m |-> 0 - i]>>
    /\ arguments \in {<<<<loci>>, DefaultPoints>> : loci \in LociLists}
                     \cup {<<<<>>, points>> : points \in 0 .. MaxPoints}

MultiplePoints ==
    CallEnds(MultiplePointsOutcomes(parents[1], parents[2], arguments[1], arguments[2]))

MultiplePointsSpec == MultiplePointsInit /\ [][MultiplePoints]_vars

EdgeRecombination ==
    /\ arguments[1] = "edge_recombination"
    /\ CallEnds(RecombineOutcomes(parents[1], parents[2]))

PermutationNext == Ordered \/ PartiallyMatched \/ EdgeRecombination

PermutationSpec == PermutationInit /\ [][PermutationNext]_vars

\* ero.adjacency_matrix(parent1, parent2) on two permutations of 1..n;
\* children holds the dict returned
AdjacencyInit ==
    /\ NoObject
    /\ Called
    /\ \E n \in 0 .. MaxPermutationLength :
        parents \in {[i \in 1 .. n |-> i]} \X PermutationsOf(n)
    /\ arguments = <<>>

AdjacencyMatrix ==
    CallEnds({[children |-> <<adjacency_matrix(parents[1], parents[2])>>,
               drawn |-> <<>>, error |-> ""]})

AdjacencySpec == AdjacencyInit /\ [][AdjacencyMatrix]_vars

\* ----------------------------------------------------------- mutation.swap
\* swap(chromosome, probability) step by step: parents = <<chromosome>>,
\* arguments = <<probability>> in 1/ProbUnits; locals holds mutant, locus1,
\* locus2 and changes; loci count from 0.

\* mutant[locus1] = mutant[locus2], and nothing else
ExchangeOverwrite(list, locus1, locus2) == [list EXCEPT ![locus1 + 1] = list[locus2 + 1]]

\* mutant[locus1], mutant[locus2] = mutant[locus2], mutant[locus1]
Exchange(list, locus1, locus2) ==
    [k \in 1 .. Len(list) |->
        IF k = locus1 + 1 THEN list[locus2 + 1]
        ELSE IF k = locus2 + 1 THEN list[locus1 + 1]
        ELSE list[k]]

\* offset as <<numerator, denominator>>: probability, then probability / changes
Offset(probability, changes) ==
    <<probability, ProbUnits * (IF changes = 0 THEN 1 ELSE changes)>>

\* what random.random() < offset can be: random() is in [0, 1)
RandomBelow(offset) ==
    {b \in BOOLEAN : (b => offset[1] > 0) /\ (~b => offset[1] < offset[2])}

SwapInit ==
    /\ NoObject
    /\ Called
    /\ parents \in {<<chromosome>> : chromosome \in Lists}
    /\ arguments \in {<<probability>> : probability \in 0 .. ProbUnits}

SwapFrame == UNCHANGED <<object, parents, arguments, children, drawn, error>>

\* mutant = list(chromosome); changes = 0; offset = probability
SwapStart ==
    /\ pc = "call"
    /\ locals' = [mutant |-> parents[1], locus1 |-> 0, locus2 |-> 0, changes |-> 0]
    /\ pc' = "for"
    /\ SwapFrame

\* for locus1 in range(0, len(chromosome)): if random.random() < offset:
\*     locus2 = locus1
SwapTest ==
    /\ pc = "for"
    /\ locals.locus1 < Len(parents[1])
    /\ \E below \in RandomBelow(Offset(arguments[1], locals.changes)) :
        IF below
        THEN locals' = [locals EXCEPT !.locus2 = locals.locus1] /\ pc' = "while"
        ELSE locals' = [locals EXCEPT !.locus1 = @ + 1] /\ pc' = "for"
    /\ SwapFrame

\* while locus2 == locus1: locus2 = random.randint(0, len(chromosome) - 1)
SwapDraw ==
    /\ pc = "while"
    /\ locals.locus2 = locals.locus1
    /\ \E locus2 \in 0 .. Len(parents[1]) - 1 :
        locals' = [locals EXCEPT !.locus2 = locus2]
    /\ pc' = "while"
    /\ SwapFrame

\* the exchange; changes += 2; offset = probability / changes; the next locus1
SwapExchange ==
    /\ pc = "while"
    /\ locals.locus2 /= locals.locus1
    /\ locals' = [locals EXCEPT
                     !.mutant = Exchange(@, locals.locus1, locals.locus2),
                     !.changes = @ + 2,
                     !.locus1 = @ + 1]
    /\ pc' = "for"
    /\ SwapFrame

\* return mutant
SwapReturn ==
    /\ pc = "for"
    /\ locals.locus1 = Len(parents[1])
    /\ children' = <<locals.mutant>>
    /\ pc' = "returned"
    /\ UNCHANGED <<object, parents, arguments, drawn, error, locals>>

SwapNext == SwapStart \/ SwapTest \/ SwapDraw \/ SwapExchange \/ SwapReturn

SwapSpec == SwapInit /\ [][SwapNext]_vars

\* every step that can be taken is taken in the end: a draw that repeats
\* locus1 changes nothing, so a draw of another locus happens if there is one
SwapLiveSpec == SwapSpec /\ WF_vars(SwapNext)

\* ================================================================== claims
IsMember(e, pop) == \E i \in 1 .. Len(pop) : pop[i] = e

\* e is a chromosome of pop that no member of pop outscores
IsFittestMember(e, pop) ==
    /\ IsChromosome(e)
    /\ IsMember(e, pop)
    /\ \A i \in 1 .. Len(pop) : score(e) >= score(pop[i])

GenerationCompleted == pc = "loop" /\ iteration >= 1

\* C1: after every completed generation the population holds exactly
\* population_size entries and next_generation is empty, the injected elite
\* entries included in that size.
C1_PopulationSizeKept ==
    GenerationCompleted =>
        /\ Len(population) = population_size
        /\ next_generation = <<>>

C1_Witness ==
    /\ GenerationCompleted
    /\ iteration = 2
    /\ IsElitist(cls)
    /\ Len(injected) >= 1
    /\ Len(population) = population_size

C3_EveryMemberIsChromosome ==
    /\ \A i \in 1 .. Len(next_generation) : IsChromosome(next_generation[i])
    /\ \A i \in 1 .. Len(population) : IsChromosome(population[i])

\* C4: when an interruption signal arrives anywhere in the generational loop,
\* solve() stops the loop and returns the best chromosome instead of raising,
\* for the base engine and for the proportionate selection strategy alike.
C4_InterruptReturnsBest ==
    (interrupted /\ cls \in {"DummyBinaryGA", "ProportionateGAUT"}) =>
        (pc = "returned" /\ error = "" /\ IsChromosome(result))

\* C5: after any completed generation, and when solve() has returned, best()
\* yields a member of the current population that no other member outscores.
C5_BestIsFittestMember ==
    /\ GenerationCompleted =>
          /\ BestError(cls, num_elites, population, scored, none_attrs) = ""
          /\ IsFittestMember(Best(cls, population, scored, best_score), population)
    /\ (pc = "returned" /\ ~interrupted) => IsFittestMember(result, population)

\* C6: the Elite Set is sorted by score in non-increasing order and never
\* longer than num_elites, after any sequence of fitness() evaluations.
C6_EliteSetSortedBounded ==
    /\ Len(elites) <= num_elites
    /\ \A i \in 1 .. Len(elites) - 1 : elites[i][1] >= elites[i + 1][1]

C6_Witness ==
    /\ num_elites >= 2
    /\ Len(elites) = num_elites
    /\ Len(evaluated) > num_elites
    /\ elites[1][1] > elites[2][1]
    /\ elites[1][2] = evaluated[Len(evaluated)]

DistinctScores(seq) ==
    \A i, j \in 1 .. Len(seq) : i /= j => score(seq[i]) /= score(seq[j])

\* the top min(n, k) <<score, chromosome>> pairs of seq, best first
IsTopOf(els, seq, k) ==
    /\ Len(els) = (IF Len(seq) < k THEN Len(seq) ELSE k)
    /\ \A i \in 1 .. Len(els) :
           \E j \in 1 .. Len(seq) : els[i] = <<score(seq[j]), seq[j]>>
    /\ \A i \in 1 .. Len(els) - 1 : els[i][1] > els[i + 1][1]
    /\ \A j \in 1 .. Len(seq) :
           (\A i \in 1 .. Len(els) : els[i][2] /= seq[j])
               => \A i \in 1 .. Len(els) : els[i][1] > score(seq[j])

TestInsertInput == <<Chrom(50), Chrom(100), Chrom(75), Chrom(60), Chrom(80)>>

\* C7: after fitness() on n chromosomes with pairwise distinct scores the
\* Elite Set is exactly the min(n, k) highest-scored pairs in descending
\* order; 50, 100, 75, 60, 80 with k = 4 leaves 100, 80, 75, 60.
C7_EliteSetIsTopK ==
    /\ DistinctScores(evaluated) => IsTopOf(elites, evaluated, num_elites)
    /\ EliteChromosomes(ElitesAfter("ElitistGAUT", <<>>, 4, TestInsertInput))
           = <<Chrom(100), Chrom(80), Chrom(75), Chrom(60)>>

C7_Witness ==
    /\ DistinctScores(evaluated)
    /\ num_elites = 2
    /\ Len(evaluated) = MaxEvaluations
    /\ elites[2][2] = evaluated[Len(evaluated)]

\* C8: the chromosomes of the Elite Set as it stands at pre_generate sit,
\* unchanged and in rank order, at the front of the next generation before any
\* child is appended, and so at the front of the population post_generate
\* installs.
C8_ElitesInjectedFirst ==
    IsElitist(cls) =>
        /\ pc = "generate" =>
              /\ Len(next_generation) >= Len(injected)
              /\ \A i \in 1 .. Len(injected) : next_generation[i] = injected[i][2]
        /\ GenerationCompleted =>
              /\ Len(population) >= Len(injected)
              /\ \A i \in 1 .. Len(injected) : population[i] = injected[i][2]

C8_Witness ==
    /\ IsElitist(cls)
    /\ GenerationCompleted
    /\ Len(injected) >= 1
    /\ Len(population) > Len(injected)

RECURSIVE SumOfScores(_)
SumOfScores(pop) ==
    IF pop = <<>> THEN 0 ELSE score(Head(pop)) + SumOfScores(Tail(pop))

\* C9: for a population whose scores sum to S > 0, proportion_population
\* builds entries only for the members with score > 0 (one each), in
\* descending score order, the share of each of width score / S (its
\* cumulative share is the one before it plus score / S), and the cumulative
\* share of the last entry equals 1.
C9_SharesAreProportional ==
    (pc = "ranked" /\ SumOfScores(population) > 0) =>
        /\ Len(scored) = Cardinality({i \in 1 .. Len(population) : score(population[i]) > 0})
        /\ \A i \in 1 .. Len(scored) :
              /\ scored[i].score > 0
              /\ scored[i].score = score(scored[i].chromosome)
              /\ Cardinality({j \in 1 .. Len(scored) : scored[j].chromosome = scored[i].chromosome})
                    = Cardinality({j \in 1 .. Len(population) : population[j] = scored[i].chromosome})
              /\ scored[i].tally
                    = FloatAdd(IF i = 1 THEN FloatZero ELSE scored[i - 1].tally,
                               FloatDiv(scored[i].score, SumOfScores(population)))
        /\ \A i \in 1 .. Len(scored) - 1 : scored[i].score >= scored[i + 1].score
        /\ scored[Len(scored)].tally = FloatOne

\* C10: select() on a ranked population with at least one positive score
\* returns, for every u in [0,1), a member of the current population: the
\* first in rank order whose cumulative share exceeds u.
C10_SelectReturnsMember ==
    (pc = "selected" /\ SumOfScores(population) > 0) =>
        /\ error = ""
        /\ IsMember(result, population)

\* C11: when every member of the population scores 0, select() of a
\* ProportionateGA reports the selection failure (the exception advising to
\* check the fitness function) and returns no chromosome; the ranking it
\* worked on is empty.
C11_AllZeroSelectFails ==
    (pc = "selected" /\ SumOfScores(population) = 0) =>
        /\ error = "Exception"
        /\ result = None
        /\ scored = <<>>

\* the sum of score - m over the positive scores of pop, m the least of them
ScaledTotal(pop) ==
    LET positive == {i \in 1 .. Len(pop) : score(pop[i]) > 0}
        m == Min({score(pop[i]) : i \in positive})
        RECURSIVE Sum(_)
        Sum(I) == IF I = {} THEN 0
                  ELSE LET i == CHOOSE j \in I : TRUE
                       IN  (score(pop[i]) - m) + Sum(I \ {i})
    IN  IF positive = {} THEN 0 ELSE Sum(positive)

LeastPositiveScore(pop) ==
    Min({score(pop[i]) : i \in {j \in 1 .. Len(pop) : score(pop[j]) > 0}})

\* C12: for a population whose positive scores are not all equal,
\* ScalingProportionateGA.proportion_population ranks every positive-scoring
\* member, gives member i the share (score_i - m) / sum of (score_j - m), m the
\* least positive score and the sum over the positive scores, accumulates the
\* shares in ranking order, and the last cumulative share is 1.
C12_ScaledSharesSumToOne ==
    (pc \in {"ranked", "raised"} /\ ScaledTotal(population) > 0) =>
        /\ pc = "ranked"
        /\ Len(scored) = Cardinality({i \in 1 .. Len(population) :
                                        score(population[i]) > 0})
        /\ \A i \in 1 .. Len(scored) :
              scored[i].tally =
                  FloatAdd(IF i = 1 THEN FloatZero ELSE scored[i - 1].tally,
                           FloatDiv(scored[i].score - LeastPositiveScore(population),
                                    ScaledTotal(population)))
        /\ scored[Len(scored)].tally = FloatOne

\* C13: for tournament_size >= 1, select() of a TournamentGA returns a member
\* of the population.
C13_TournamentReturnsMember ==
    (pc = "selected" /\ tournament_size >= 1) =>
        /\ error = ""
        /\ IsMember(result, population)

\* (current - old) / old <= threshold, for old /= 0
GainWithin(current, old, th) ==
    IF old > 0 THEN (current - old) * th[2] <= th[1] * old
    ELSE (current - old) * th[2] >= th[1] * old

\* C14: is_finished() of a FinishWhenSlowGA. With more than lookback best
\* scores recorded and old the score at the start of the lookback window
\* (best_scores[-lookback]: lookback - 1 generations before the current score,
\* the first recorded score when lookback is 0), it raises ZeroDivisionError
\* when old is 0 and otherwise returns true iff iteration >= max_iterations or
\* (current - old) / old <= threshold; with at most lookback scores it returns
\* iteration >= max_iterations. With threshold 0.05 and lookback 5 the history
\* 10, 13, 15, 16, 16, 16, 16, 16 finishes and the history
\* 10, 13, 15, 17, 18, 18, 19 with iteration < max_iterations does not.
C14_FinishesWhenSlow ==
    pc = "checked" =>
        LET n == Len(best_scores)
            old == best_scores[IF lookback = 0 THEN 1 ELSE n - lookback + 1]
        IN  /\ error = IF n > lookback /\ old = 0 THEN "ZeroDivisionError" ELSE ""
            /\ (error = "" /\ n > lookback) =>
                  result = Bool(\/ iteration >= max_iterations
                                \/ GainWithin(best_scores[n], old, threshold))
            /\ n <= lookback => result = Bool(iteration >= max_iterations)
            /\ (best_scores = SlowHistory /\ threshold = DefaultThreshold
                    /\ lookback = DefaultLookback) => result = Bool(TRUE)
            /\ (best_scores = FastHistory /\ threshold = DefaultThreshold
                    /\ lookback = DefaultLookback /\ iteration < max_iterations)
                  => result = Bool(FALSE)

\* the slow history stops a run that has iterations left
C14_Witness ==
    /\ pc = "checked"
    /\ best_scores = SlowHistory
    /\ lookback = DefaultLookback
    /\ iteration < max_iterations
    /\ result = Bool(TRUE)

\* C14 as stated, with old the best score lookback generations before the
\* current one (best_scores[-1 - lookback]), for lookback >= 1, wherever
\* is_finished() returns and that score is not 0
C14_LookbackGenerationsAgo ==
    (pc = "checked" /\ error = "" /\ lookback >= 1 /\ Len(best_scores) > lookback
        /\ best_scores[Len(best_scores) - lookback] /= 0) =>
        result = Bool(\/ iteration >= max_iterations
                      \/ GainWithin(best_scores[Len(best_scores)],
                                    best_scores[Len(best_scores) - lookback],
                                    threshold))

\* child is first up to index locus (counted from 0) and second from there on
IsSplice(child, first, second, locus) ==
    /\ Len(child) = Len(second)
    /\ \A i \in 1 .. Len(child) :
          child[i] = IF i <= locus THEN first[i] ELSE second[i]

\* C15: single_point(parent1, parent2, l) with a locus l within the shorter
\* parent returns two children. When parent1 is not the longer parent, the
\* first child equals parent1 at every index before l and parent2 at every
\* index at or after l, and the second child equals parent2 before l and
\* parent1 from l on; when parent1 is the longer parent the two children come
\* in the other order.
C15_SinglePointSplices ==
    (pc = "returned" /\ arguments /= <<>>
        /\ arguments[1] <= Len(ShorterParent(parents[1], parents[2]))) =>
        /\ Len(children) = 2
        /\ IF Len(parents[1]) <= Len(parents[2])
           THEN /\ IsSplice(children[1], parents[1], parents[2], arguments[1])
                /\ IsSplice(children[2], parents[2], parents[1], arguments[1])
           ELSE /\ IsSplice(children[1], parents[2], parents[1], arguments[1])
                /\ IsSplice(children[2], parents[1], parents[2], arguments[1])

\* a longer parent1 is crossed with a shorter parent2
C15_Witness ==
    /\ pc = "returned"
    /\ arguments = <<1>>
    /\ Len(parents[1]) > Len(parents[2])
    /\ Len(parents[2]) >= 1
    /\ children[1] /= children[2]

\* C15 as stated: the first child starts with parent1 and the second with
\* parent2, whichever parent is the longer
C15_FirstChildStartsWithParent1 ==
    (pc = "returned" /\ arguments /= <<>>
        /\ arguments[1] <= Len(ShorterParent(parents[1], parents[2]))) =>
        /\ Len(children) = 2
        /\ IsSplice(children[1], parents[1], parents[2], arguments[1])
        /\ IsSplice(children[2], parents[2], parents[1], arguments[1])

\* the bits of p from bit l up, and the l bits below
HighBits(p, l) == (p \div Pow2(l)) * Pow2(l)
LowBits(p, l) == p % Pow2(l)

\* C16: single_point_bin with a locus l returns [(p1 & maskLeft) | (p2 &
\* maskRight), (p2 & maskLeft) | (p1 & maskRight)], maskRight being the l low
\* bits and maskLeft the bits above them up to the width w of the parents,
\* when width and locus are supplied (l <= w, p1, p2 < 2^w) and when only the
\* locus is supplied; 992 and 31 cross at locus 5 into 1023 and 0.
C16_SinglePointBinMasks ==
    (pc = "returned" /\ arguments[2] /= <<>>
        /\ (arguments[1] /= <<>> =>
               /\ arguments[2][1] <= arguments[1][1]
               /\ parents[1] < Pow2(arguments[1][1])
               /\ parents[2] < Pow2(arguments[1][1]))) =>
        /\ children = <<HighBits(parents[1], arguments[2][1])
                            + LowBits(parents[2], arguments[2][1]),
                        HighBits(parents[2], arguments[2][1])
                            + LowBits(parents[1], arguments[2][1])>>
        /\ (parents = <<992, 31>> /\ arguments[2] = <<5>>) => children = <<1023, 0>>

\* list holds every element of parent exactly once and nothing else
IsPermutationOf(list, parent) ==
    /\ Len(list) = Len(parent)
    /\ \A i \in 1 .. Len(parent) :
          Cardinality({j \in 1 .. Len(list) : list[j] = parent[i]}) = 1

\* C17: for parents that are permutations of one element set and every cut
\* ordered() and partially_matched() can make, every child returned has the
\* length of the parents and holds every element of the parents exactly once.
C17_ChildrenArePermutations ==
    pc = "returned" =>
        /\ Len(children) = 2
        /\ \A c \in 1 .. Len(children) : IsPermutationOf(children[c], parents[1])

\* partially_matched() returns a child that is neither parent
C17_Witness ==
    /\ pc = "returned"
    /\ arguments[1] = "partially_matched"
    /\ children[1] /= parents[1]
    /\ children[1] /= parents[2]
    /\ children[2] /= children[1]

\* C18: for non-empty parents that are permutations of one element set,
\* edge_recombination(parent1, parent2) ends by returning one child, of the
\* length of the parents, that holds every element of the parents exactly once.
C18_EdgeRecombinationReturnsPermutation ==
    (pc /= "call" /\ arguments[1] = "edge_recombination" /\ parents[1] /= <<>>) =>
        /\ pc = "returned"
        /\ Len(children) = 1
        /\ IsPermutationOf(children[1], parents[1])

\* the loci of the call: the list given, or the list drawn
LociUsed == IF arguments[1] = <<>> THEN drawn ELSE arguments[1][1]

\* the segment of position i (counted from 1): the number of loci at or
\* before it, a locus being the position, counted from 0, where a segment starts
SegmentOf(i, loci) == Cardinality({j \in 1 .. Len(loci) : loci[j] < i})

BitAt(x, locus) == (x \div Pow2(locus)) % 2

\* the bits 0 .. bits - 1 of parents[from[locus]] put together
MixedBits(from, bits) ==
    LET RECURSIVE upTo(_)
        upTo(count) == IF count = 0 THEN 0
                       ELSE upTo(count - 1)
                            + BitAt(parents[from[count - 1]], count - 1) * Pow2(count - 1)
    IN  upTo(bits)

\* C20: uniform_bin(parent1, parent2, bits) draws each bit position from either
\* parent: for every assignment of the positions 0 .. bits - 1 to the parents
\* the call has an outcome whose first child takes each bit from the assigned
\* parent and whose second child takes it from the other one; and in every
\* outcome each child bit equals the bit of one of the parents at its position.
C20_UniformBinDrawsEachBit ==
    LET bits == arguments[1]
    IN  /\ pc = "call" =>
            \A from \in [0 .. bits - 1 -> {1, 2}] :
                \E o \in UniformBinOutcomes(parents[1], parents[2], bits) :
                    /\ o.error = ""
                    /\ o.children = <<MixedBits(from, bits),
                                      MixedBits([l \in 0 .. bits - 1 |-> 3 - from[l]], bits)>>
        /\ pc /= "call" =>
            /\ pc = "returned"
            /\ Len(children) = 2
            /\ \A c \in 1 .. 2, l \in 0 .. bits - 1 :
                \E p \in 1 .. 2 : BitAt(children[c], l) = BitAt(parents[p], l)

\* the alleles of a list with their numbers of occurrences
AllelesOf(list) ==
    [a \in {list[i] : i \in 1 .. Len(list)} |->
        Cardinality({i \in 1 .. Len(list) : list[i] = a})]

SwapRuns == cls = "crossover" /\ locals /= <<>>

\* C21: while swap() runs and when it has returned, its list (the list it
\* returns) has the length and the alleles, each as often, of the input; an
\* exchange is only made between two distinct loci; no step changes the input
\* list.  (Whether the call returns is the subject of C27.)
C21_SwapKeepsAlleles ==
    /\ [](SwapRuns =>
            /\ Len(locals.mutant) = Len(parents[1])
            /\ AllelesOf(locals.mutant) = AllelesOf(parents[1])
            /\ pc = "returned" => children = <<locals.mutant>>)
    /\ [][/\ parents' = parents
          /\ (SwapRuns /\ locals'.mutant /= locals.mutant) =>
                /\ locals.locus1 /= locals.locus2
                /\ locals'.mutant = Exchange(locals.mutant, locals.locus1, locals.locus2)]_vars

\* swap() has returned a list that differs from its input
C21_Witness ==
    /\ pc = "returned"
    /\ SwapRuns
    /\ children[1] /= parents[1]
    /\ locals.changes >= 2

\* C27: swap() terminates: for every chromosome length (0 and 1 included),
\* every probability in [0, 1] and every stream of draws, the call returns.
C27_SwapTerminates == <>(pc = "returned")

\* C22: once the population of a generation is ranked (after post_generate,
\* or after the first pre_generate), score_population() returns
\* population_size entries, each a (chromosome, score) pair whose chromosome
\* is a member of the population, in an order of non-increasing score; for
\* the base engine and the proportionate, scaled, tournament and elitist
\* compositions, zero-scored members included.
C22_ScorePopulationRanksPopulation ==
    (pc = "ranked" \/ GenerationCompleted) =>
        LET ranking == ScorePopulationOf(cls, population, scored, none_attrs)
        IN  /\ ranking /= None
            /\ Len(ranking) = population_size
            /\ \A i \in 1 .. Len(ranking) :
                    /\ Len(ranking[i]) = 2
                    /\ IsMember(ranking[i][1], population)
            /\ \A i \in 1 .. Len(ranking) - 1 :
                    ~KeyLess(ranking[i][2], ranking[i + 1][2])

\* the Elite Set with one more entry, put behind every entry of its score or
\* a higher one, and cut to its first k entries
PlacedAfterTies(els, k, add) ==
    LET ahead == SelectSeq(els, LAMBDA x : x[1] >= add[1])
        behind == SelectSeq(els, LAMBDA x : x[1] < add[1])
        all == ahead \o <<add>> \o behind
    IN  SubSeq(all, 1, Min({k, Len(all)}))

\* C23: in selection.ElitistGA every fitness() call leaves the Elite Set as
\* it is when the new (score, chromosome) entry is put after every entry of
\* an equal or a higher score and the last entry is dropped if the set is
\* then longer than num_elites; the entries that were there keep their order.
C23_TiesKeepFirstSeen ==
    [][(IsElitist(cls) /\ evaluated' /= evaluated) =>
          elites' = PlacedAfterTies(elites, num_elites, evaluated'[Len(evaluated')])]_vars

\* a chromosome has gone in behind another one of its score and ahead of a
\* lower one
C23_Witness ==
    /\ IsElitist(cls)
    /\ Len(elites) >= 3
    /\ elites[1][1] = elites[2][1]
    /\ elites[1][2] /= elites[2][2]
    /\ elites[2][1] > elites[3][1]
    /\ elites[2] = evaluated[Len(evaluated)]

\* the elements next to v in list, the list taken as a ring
RingNeighbours(list, v) ==
    LET n == Len(list)
    IN  UNION {{list[IF i = 1 THEN n ELSE i - 1], list[IF i = n THEN 1 ELSE i + 1]}
               : i \in {j \in 1 .. n : list[j] = v}}

\* C24: for two permutations of one element set, adjacency_matrix maps every
\* element v to the set of its left and right neighbours (cyclically) in
\* parent1 and in parent2, and to nothing else; for a length of 2 or more v
\* is not in its own set.
C24_AdjacencyIsBothNeighbours ==
    pc = "returned" =>
        LET neighbors == children[1]
        IN  /\ DOMAIN neighbors = {parents[1][i] : i \in 1 .. Len(parents[1])}
            /\ \A v \in DOMAIN neighbors :
                /\ neighbors[v] = RingNeighbours(parents[1], v)
                                     \cup RingNeighbours(parents[2], v)
                /\ Len(parents[1]) >= 2 => v \notin neighbors[v]

\* C25: for permutation parents and the cuts l1 <= l2 of a call of
\* partially_matched(), the first child equals parent2 at every position of
\* [l1, l2) and equals parent1 at every position outside it whose parent1
\* allele is not in the segment copied from parent2; the second child the
\* same with the parents exchanged.  (Positions count from 0 in the claim,
\* from 1 here.)
C25_PmxKeepsPositions ==
    (pc = "returned" /\ arguments[1] = "partially_matched") =>
        LET l1 == Min({drawn[1], drawn[2]})
            l2 == Max({drawn[1], drawn[2]})
            segment == {i \in 1 .. Len(parents[1]) : l1 < i /\ i <= l2}
        IN  \A c \in 1 .. 2 :
                LET own == parents[c]
                    other == parents[3 - c]
                IN  /\ Len(children[c]) = Len(own)
                    /\ \A i \in segment : children[c][i] = other[i]
                    /\ \A i \in (1 .. Len(own)) \ segment :
                           (\A j \in segment : other[j] /= own[i]) =>
                               children[c][i] = own[i]

\* a call that copied a segment, kept a position outside it and repaired another
C25_Witness ==
    /\ pc = "returned"
    /\ arguments[1] = "partially_matched"
    /\ LET l1 == Min({drawn[1], drawn[2]})
           l2 == Max({drawn[1], drawn[2]})
       IN  /\ l2 - l1 >= 2
           /\ \E i \in l1 + 1 .. l2 : children[1][i] /= parents[1][i]
           /\ \E i \in 1 .. Len(parents[1]) :
                 ~(l1 < i /\ i <= l2) /\ children[1][i] /= parents[1][i]
           /\ \E i \in 1 .. Len(parents[1]) :
                 ~(l1 < i /\ i <= l2) /\ children[1][i] = parents[1][i]

\* the members of pop that score above 0 with their scores, best first
PositiveRanking(pop) == SelectSeq(score_population(pop), LAMBDA t : t[2][1] > 0)

\* the chromosomes and scores of the cache
CachedRanking == [i \in 1 .. Len(scored) |-> <<scored[i].chromosome, <<scored[i].score>>>>]

C28_EliteSetHasNoCopies ==
    /\ [][(IsElitist(cls) /\ evaluated' /= evaluated
           /\ \E i \in 1 .. Len(elites) : elites[i][2] = evaluated'[Len(evaluated')]) =>
              elites' = elites]_vars
    /\ [](IsElitist(cls) =>
            \A i, j \in 1 .. Len(elites) : elites[i][2] = elites[j][2] => i = j)

\* the Elite Set of a fresh object of either class after the first n of the
\* scored chromosomes fed
RECURSIVE ElitesFed(_, _, _, _)
ElitesFed(behavioral, k, fed, n) ==
    IF n = 0 THEN <<>>
    ELSE IF behavioral
         THEN BehaviorEliteAdd(ElitesFed(behavioral, k, fed, n - 1), k, fed[n][1], fed[n][2])
         ELSE EliteAdd(ElitesFed(behavioral, k, fed, n - 1), k, fed[n][1], fed[n][2])

\* C29: behavior.ElitistGA and selection.ElitistGA are equivalent: with one
\* num_elites and fed one sequence of scored chromosomes, the Elite Set of an
\* object of either class is, after every fitness() call, the Elite Set an
\* object of the other class has.
C29_ElitistClassesAgree ==
    (IsElitist(cls) \/ IsBehaviorElitist(cls)) =>
        elites = ElitesFed(IsElitist(cls), num_elites, evaluated, Len(evaluated))

\* C30: is_finished() of a FinishWhenSlowGA returns a boolean and raises
\* nothing for every recorded history of non-negative best scores, the
\* histories whose score at the start of the lookback window is 0 included.
C30_IsFinishedReturnsBoolean ==
    (pc = "checked" /\ \A i \in DOMAIN best_scores : best_scores[i] >= 0) =>
        /\ error = ""
        /\ result \in {Bool(TRUE), Bool(FALSE)}

====
